---- MODULE Spec2Model ----
(***************************************************************************)
(* Model of package backoff (src/backoff.go, the revision with jitter and  *)
(* UnrecoverableError, lines 302-656): the four entry points build a       *)
(* backoffConfig by applying the ConfigFunc options in order, then run the *)
(* attempt loop of exec (Linear, Exponential) or mustExec (MustLinear,     *)
(* MustExponential).                                                       *)
(*                                                                         *)
(* One run of one entry point is one behaviour.  The caller's inputs are   *)
(* the entry point and the option list (chosen in Init), the outcome of    *)
(* every invocation of the wrapped function and every draw of rand.Intn    *)
(* (chosen when they happen).                                              *)
(***************************************************************************)
EXTENDS Integers, Sequences, FiniteSets, TLC

(***************************************************************************)
(* Bounds of the model.                                                    *)
(***************************************************************************)
\* longest option list handed to an entry point
MaxOpts == 2
\* Retries(n) and RetryAfter(n) are called with n in 0..MaxArg (Retries
\* also with 101, the first value above the documented range)
MaxArg == 2
\* rand.Intn(n) is sampled: its MaxRand+1 smallest values and its largest
MaxRand == 1
\* the jitter strategies are evaluated for every cap in 0..MaxCap, and for those
\* caps every value rand.Intn can draw is kept
MaxCap == 12
\* largest set of options whose orders of application are compared
MaxOrder == 3

(***************************************************************************)
(* Program constants.                                                      *)
(***************************************************************************)
minRetries == 1
maxRetries == 100
\* maxRetries: 10 and retryAfter: 500 of the configuration literals
DefaultMaxRetries == 10
DefaultRetryAfter == 500
\* time.Millisecond and time.Nanosecond, in nanoseconds
Millisecond == 1000000
Nanosecond == 1

(***************************************************************************)
(* Errors.  An error value is a record: kind "nil" is the nil error,       *)
(* "plain" an ordinary error, "unrecoverable" a *UnrecoverableError whose  *)
(* embedded error is cause.                                                *)
(***************************************************************************)
NilErr == [kind |-> "nil", cause |-> "nil"]
PlainErr(name) == [kind |-> "plain", cause |-> name]
ErrInvalidRetriesNumber == PlainErr("invalid number of retries")
NewUnrecoverableError(e) == [kind |-> "unrecoverable", cause |-> e.cause]

\* a type switch with `case UnrecoverableError:` alone, which the pointer that
\* NewUnrecoverableError returns does not match
IsUnrecoverable_ValueOnly(e) == FALSE

\* the type switch of exec and mustExec: case *UnrecoverableError, UnrecoverableError
IsUnrecoverable(e) == e.kind = "unrecoverable"

(***************************************************************************)
(* Jitter strategies.  Each yields the set of values a call may return;    *)
(* the empty set means the call panics (rand.Intn panics when n <= 0).     *)
(***************************************************************************)
Intn(n) == {r \in 0..(n - 1) : n <= MaxCap \/ r <= MaxRand \/ r = n - 1}

NoJitter(cap) == {cap}

FullJitter(cap) == Intn(cap)

EqualJitter(cap) ==
    LET half == cap \div 2
    IN  {half + r : r \in Intn(half)}

\* b.jitterFunc(cap); an unset jitterFunc is a nil func value, whose call panics
CallJitter(f, cap) ==
    CASE f = "NoJitter"    -> NoJitter(cap)
      [] f = "FullJitter"  -> FullJitter(cap)
      [] f = "EqualJitter" -> EqualJitter(cap)
      [] OTHER             -> {}

(***************************************************************************)
(* Configuration literals of the four entry points.                        *)
(***************************************************************************)
LinearConfig ==
    [callbackFunc |-> "nil", maxRetries |-> DefaultMaxRetries,
     retryAfter |-> DefaultRetryAfter, jitterFunc |-> "FullJitter",
     exponential |-> FALSE, label |-> "getLabel", log |-> "log.New",
     timeScale |-> Millisecond, invocations |-> 0, failedInvocations |-> 0]

MustLinearConfig ==
    [callbackFunc |-> "nil", maxRetries |-> DefaultMaxRetries,
     retryAfter |-> DefaultRetryAfter, jitterFunc |-> "nil",
     exponential |-> FALSE, label |-> "getLabel", log |-> "log.New",
     timeScale |-> Millisecond, invocations |-> 0, failedInvocations |-> 0]

ExponentialConfig ==
    [callbackFunc |-> "nil", maxRetries |-> DefaultMaxRetries,
     retryAfter |-> DefaultRetryAfter, jitterFunc |-> "nil",
     exponential |-> TRUE, label |-> "getLabel", log |-> "log.New",
     timeScale |-> Millisecond, invocations |-> 0, failedInvocations |-> 0]

MustExponentialConfig ==
    [callbackFunc |-> "nil", maxRetries |-> DefaultMaxRetries,
     retryAfter |-> DefaultRetryAfter, jitterFunc |-> "nil",
     exponential |-> TRUE, label |-> "getLabel", log |-> "log.New",
     timeScale |-> Millisecond, invocations |-> 0, failedInvocations |-> 0]

(***************************************************************************)
(* Configuration options.  Each takes its argument and the configuration   *)
(* b and yields the returned error and the configuration it leaves.        *)
(***************************************************************************)
Retries(n, b) ==
    IF n > 100 \/ n < 0
    THEN [err |-> ErrInvalidRetriesNumber, b |-> b]
    ELSE [err |-> NilErr, b |-> [b EXCEPT !.maxRetries = n]]

\* a Label that also writes the budget, the way RetryAfter does
Label_SetsBudget(label, b) ==
    [err |-> NilErr,
     b |-> [b EXCEPT !.label = label, !.log = "log.New", !.maxRetries = 0]]

Label(label, b) ==
    [err |-> NilErr, b |-> [b EXCEPT !.label = label, !.log = "log.New"]]

RetryAfter(n, b) ==
    [err |-> NilErr, b |-> [b EXCEPT !.maxRetries = n]]

TimeScale(t, b) ==
    [err |-> NilErr, b |-> [b EXCEPT !.timeScale = t]]

Logger(dest, b) ==
    [err |-> NilErr, b |-> [b EXCEPT !.log = dest]]

Callback(f, b) ==
    [err |-> NilErr, b |-> [b EXCEPT !.callbackFunc = f]]

Jitter(f, b) ==
    [err |-> NilErr, b |-> [b EXCEPT !.jitterFunc = f]]

\* the failing option of the tests
FailingConfig(m, b) ==
    [err |-> PlainErr(m), b |-> b]

\* An option value: the ConfigFunc closure, named by its constructor and argument.
Opt(op, n, s) == [op |-> op, n |-> n, s |-> s]

\* opt(cfg)
ApplyOpt(o, b) ==
    CASE o.op = "Retries"       -> Retries(o.n, b)
      [] o.op = "Label"         -> Label(o.s, b)
      [] o.op = "RetryAfter"    -> RetryAfter(o.n, b)
      [] o.op = "TimeScale"     -> TimeScale(o.n, b)
      [] o.op = "Logger"        -> Logger(o.s, b)
      [] o.op = "Callback"      -> Callback(o.s, b)
      [] o.op = "Jitter"        -> Jitter(o.s, b)
      [] o.op = "FailingConfig" -> FailingConfig(o.s, b)

(***************************************************************************)
(* Inputs.                                                                 *)
(***************************************************************************)
Entries == {"Linear", "MustLinear", "Exponential", "MustExponential"}

Options ==
         {Opt("Retries", n, "") : n \in (0..MaxArg) \cup {maxRetries + 1}}
    \cup {Opt("RetryAfter", n, "") : n \in 0..MaxArg}
    \cup {Opt("Jitter", 0, f) : f \in {"NoJitter", "FullJitter", "EqualJitter"}}
    \cup {Opt("Label", 0, "custom"), Opt("TimeScale", Nanosecond, ""),
          Opt("Logger", 0, "sink"), Opt("Callback", 0, "cb"),
          Opt("FailingConfig", 0, "Failing")}

OptLists == UNION {[1..k -> Options] : k \in 0..MaxOpts}

\* what one invocation of the wrapped function may return
Results == {"nil", "r1"}
Outcomes ==
    [result : Results,
     err : {NilErr, PlainErr("e1"), PlainErr("e2"),
            NewUnrecoverableError(PlainErr("e1")),
            NewUnrecoverableError(PlainErr("e2"))}]

\* time.Duration(d) * b.timeScale, kept as the pair of its factors (the product
\* of the magnitudes modelled stays far below the range of int64)
Duration(n, unit) == [n |-> n, unit |-> unit]

NoOutcome == [result |-> "nil", err |-> NilErr]
NoWarning == [label |-> "", attempt |-> 0, err |-> NilErr, log |-> ""]
NoOpt == Opt("", 0, "")
NoTwin == [pc |-> "none"]
NoJit == [f |-> "none", cap |-> 0, pc |-> "none", ret |-> 0]

(***************************************************************************)
(* State.                                                                  *)
(***************************************************************************)
VARIABLES
    entry,      \* the entry point called
    opts,       \* the options not yet applied
    pc,         \* "build", "exec_loop", "exec_call", "exec_end", "must_loop",
                \* "must_call", "must_end", "returned", "panicked", "fatal"
    cfg,        \* the backoffConfig
    i,          \* loop counter of exec / mustExec
    d,          \* delay magnitude of the current iteration
    result,     \* result of exec / mustExec
    err,        \* err of exec / mustExec
    prevErr,    \* prevErr of exec
    retResult,  \* the result handed back to the caller
    retErr,     \* the error handed back to the caller
    \* observers
    given,      \* number of options the caller passed
    applied,    \* number of options called so far
    failedOpt,  \* the option that returned an error, if any
    jitterGiven,\* whether the caller passed a Jitter option
    calls,      \* invocations of the wrapped function
    ordinary,   \* invocations that returned an ordinary error
    lastOut,    \* what the last invocation returned
    waits,      \* calls of time.Sleep
    slept,      \* duration of the last time.Sleep
    warnings,   \* calls of log.Warnf
    lastWarn,   \* arguments and sink of the last log.Warnf
    cbCalls,    \* calls of the callback
    cbArg,      \* result, invocations and failedInvocations the callback saw
    \* beside the run
    twin,       \* a second run, given the same inputs, beside the run
    jit         \* one evaluation of a jitter strategy on its own

vars == <<entry, opts, pc, cfg, i, d, result, err, prevErr, retResult, retErr,
          given, applied, failedOpt, calls, ordinary, lastOut, waits, slept,
          warnings, lastWarn, cbCalls, cbArg, jitterGiven, twin, jit>>

runVars == <<i, d, result, err, prevErr>>
obsVars == <<calls, ordinary, lastOut, waits, slept, warnings, lastWarn,
             cbCalls, cbArg>>
retVars == <<retResult, retErr>>
buildVars == <<entry, opts, given, applied, failedOpt, jitterGiven>>
auxVars == <<twin, jit>>

NoCbArg == [result |-> "nil", invocations |-> 0, failedInvocations |-> 0]

EntryConfig(e) ==
    CASE e = "Linear"          -> LinearConfig
      [] e = "MustLinear"      -> MustLinearConfig
      [] e = "Exponential"     -> ExponentialConfig
      [] e = "MustExponential" -> MustExponentialConfig

\* the locals and observers of a run before its first step
InitRun ==
    /\ pc = "build"
    /\ cfg = EntryConfig(entry)
    /\ i = 0
    /\ d = 0
    /\ result = "nil"
    /\ err = NilErr
    /\ prevErr = NilErr
    /\ retResult = "nil"
    /\ retErr = NilErr
    /\ given = Len(opts)
    /\ jitterGiven = (\E k \in 1..Len(opts) : opts[k].op = "Jitter")
    /\ applied = 0
    /\ failedOpt = NoOpt
    /\ calls = 0
    /\ ordinary = 0
    /\ lastOut = NoOutcome
    /\ waits = 0
    /\ slept = Duration(0, 0)
    /\ warnings = 0
    /\ lastWarn = NoWarning
    /\ cbCalls = 0
    /\ cbArg = NoCbArg

Init ==
    /\ entry \in Entries
    /\ opts \in OptLists
    /\ InitRun
    /\ twin = NoTwin
    /\ jit = NoJit

(***************************************************************************)
(* Entry points: one step of `for _, opt := range opts`, or the call of    *)
(* exec / mustExec once the options are used up.                           *)
(***************************************************************************)
\* an entry point that drops the option's error
OptFailed_Never(r) == FALSE

\* `if err != nil` after err := opt(cfg)
OptFailed(r) == r.err # NilErr

\* Linear and Exponential: an option's error is returned with a nil result
ReportBuild ==
    IF opts = <<>>
    THEN /\ pc' = "exec_loop"
         /\ i' = 1
         /\ UNCHANGED <<cfg, d, result, err, prevErr, retVars, buildVars, obsVars>>
    ELSE LET r == ApplyOpt(Head(opts), cfg)
         IN  /\ opts' = Tail(opts)
             /\ applied' = applied + 1
             /\ failedOpt' = IF r.err # NilErr THEN Head(opts) ELSE failedOpt
             /\ IF OptFailed(r)
                THEN /\ pc' = "returned"
                     /\ retResult' = "nil"
                     /\ retErr' = r.err
                     /\ UNCHANGED cfg
                ELSE /\ cfg' = r.b
                     /\ UNCHANGED <<pc, retVars>>
             /\ UNCHANGED <<entry, given, jitterGiven, runVars, obsVars>>

\* MustLinear and MustExponential: an option's error goes to cfg.log.Fatal
MustBuild ==
    IF opts = <<>>
    THEN /\ pc' = "must_loop"
         /\ i' = 1
         /\ UNCHANGED <<cfg, d, result, err, prevErr, retVars, buildVars, obsVars>>
    ELSE LET r == ApplyOpt(Head(opts), cfg)
         IN  /\ opts' = Tail(opts)
             /\ applied' = applied + 1
             /\ failedOpt' = IF r.err # NilErr THEN Head(opts) ELSE failedOpt
             /\ IF OptFailed(r)
                THEN /\ pc' = "fatal"
                     /\ UNCHANGED cfg
                ELSE /\ cfg' = r.b
                     /\ UNCHANGED pc
             /\ UNCHANGED <<entry, given, jitterGiven, retVars, runVars, obsVars>>

Linear == pc = "build" /\ entry = "Linear" /\ ReportBuild /\ UNCHANGED auxVars

MustLinear == pc = "build" /\ entry = "MustLinear" /\ MustBuild /\ UNCHANGED auxVars

Exponential == pc = "build" /\ entry = "Exponential" /\ ReportBuild /\ UNCHANGED auxVars

MustExponential == pc = "build" /\ entry = "MustExponential" /\ MustBuild /\ UNCHANGED auxVars

(***************************************************************************)
(* The head of a loop iteration, shared text of exec and mustExec:         *)
(* b.invocations = i, the jitter call, the delay and time.Sleep.           *)
(***************************************************************************)
\* a loop that runs one iteration too many
LoopCond_OneMore(n, b) == n <= b.maxRetries + 1

\* the loop condition `i <= b.maxRetries`
LoopCond(n, b) == n <= b.maxRetries

\* a delay that forgets the attempt index
Delay_Constant(j, b, n) == j

\* d = uint(b.jitterFunc(b.retryAfter) * int(i)), or uint(b.jitterFunc(b.retryAfter))
Delay(j, b, n) == IF b.exponential THEN j * n ELSE j

SleepStep(next) ==
    /\ cfg' = [cfg EXCEPT !.invocations = i]
    /\ IF CallJitter(cfg.jitterFunc, cfg.retryAfter) = {}
       THEN /\ pc' = "panicked"
            /\ UNCHANGED <<d, waits, slept>>
       ELSE \E j \in CallJitter(cfg.jitterFunc, cfg.retryAfter) :
              /\ d' = Delay(j, cfg, i)
              /\ waits' = waits + 1
              /\ slept' = Duration(d', cfg.timeScale)
              /\ pc' = next
    /\ UNCHANGED <<i, result, err, prevErr, retVars, buildVars, calls, ordinary,
                   lastOut, warnings, lastWarn, cbCalls, cbArg>>

\* an increment of the wrong counter
IncFailedInvocations_Invocations(b) == [b EXCEPT !.invocations = @ + 1]

\* b.failedInvocations++
IncFailedInvocations(b) == [b EXCEPT !.failedInvocations = @ + 1]

\* a warning that numbers the attempts from 0
Warnf_ZeroBased(b, n, e) ==
    [label |-> b.label, attempt |-> n - 1, err |-> e, log |-> b.log]

\* b.log.Warnf("%v (Attempt #%v): %v", b.label, i, err)
Warnf(b, n, e) == [label |-> b.label, attempt |-> n, err |-> e, log |-> b.log]

(***************************************************************************)
(* exec                                                                    *)
(***************************************************************************)
ExecSleepStep == pc = "exec_loop" /\ LoopCond(i, cfg) /\ SleepStep("exec_call")

ExecSleep == ExecSleepStep /\ UNCHANGED auxVars

ExecCallStep ==
    /\ pc = "exec_call"
    /\ \E out \in Outcomes :
         /\ calls' = calls + 1
         /\ lastOut' = out
         /\ d' = 0
         /\ IF out.err # NilErr
            THEN IF IsUnrecoverable(out.err)
                 THEN /\ pc' = "returned"
                      /\ result' = out.result
                      /\ err' = out.err
                      /\ retResult' = "int64(0)"
                      /\ retErr' = out.err
                      /\ UNCHANGED <<cfg, i, prevErr, ordinary, warnings, lastWarn>>
                 ELSE /\ warnings' = warnings + 1
                      /\ lastWarn' = Warnf(cfg, i, out.err)
                      /\ cfg' = IncFailedInvocations(cfg)
                      /\ ordinary' = ordinary + 1
                      /\ prevErr' = out.err
                      /\ err' = NilErr
                      /\ result' = out.result
                      /\ i' = i + 1
                      /\ pc' = "exec_loop"
                      /\ UNCHANGED retVars
            ELSE /\ result' = out.result
                 /\ err' = NilErr
                 /\ prevErr' = NilErr
                 /\ pc' = "exec_end"
                 /\ UNCHANGED <<cfg, i, ordinary, warnings, lastWarn, retVars>>
    /\ UNCHANGED <<buildVars, waits, slept, cbCalls, cbArg>>

ExecCall == ExecCallStep /\ UNCHANGED auxVars

\* `return nil, prevErr` when the run failed: the operation's result dropped
ExecReturn_Nil(res, pe, e) ==
    [result |-> IF pe # NilErr THEN "nil" ELSE res, err |-> pe]

\* `return result, prevErr`
ExecReturn(res, pe, e) == [result |-> res, err |-> pe]

ExecEndStep ==
    /\ \/ pc = "exec_end"
       \/ pc = "exec_loop" /\ ~LoopCond(i, cfg)
    /\ IF cfg.callbackFunc # "nil" /\ prevErr = NilErr
       THEN /\ cbCalls' = cbCalls + 1
            /\ cbArg' = [result |-> result, invocations |-> cfg.invocations,
                         failedInvocations |-> cfg.failedInvocations]
       ELSE UNCHANGED <<cbCalls, cbArg>>
    /\ retResult' = ExecReturn(result, prevErr, err).result
    /\ retErr' = ExecReturn(result, prevErr, err).err
    /\ pc' = "returned"
    /\ UNCHANGED <<cfg, runVars, buildVars, calls, ordinary, lastOut, waits,
                   slept, warnings, lastWarn>>

ExecEnd == ExecEndStep /\ UNCHANGED auxVars

(***************************************************************************)
(* mustExec                                                                *)
(***************************************************************************)
MustSleepStep == pc = "must_loop" /\ LoopCond(i, cfg) /\ SleepStep("must_call")

MustSleep == MustSleepStep /\ UNCHANGED auxVars

MustCallStep ==
    /\ pc = "must_call"
    /\ \E out \in Outcomes :
         /\ calls' = calls + 1
         /\ lastOut' = out
         /\ d' = 0
         /\ result' = out.result
         /\ err' = out.err
         /\ IF out.err # NilErr
            THEN IF IsUnrecoverable(out.err)
                 THEN /\ pc' = "panicked"
                      /\ UNCHANGED <<cfg, i, ordinary, warnings, lastWarn>>
                 ELSE /\ warnings' = warnings + 1
                      /\ lastWarn' = Warnf(cfg, i, out.err)
                      /\ cfg' = IncFailedInvocations(cfg)
                      /\ ordinary' = ordinary + 1
                      /\ i' = i + 1
                      /\ pc' = "must_loop"
            ELSE /\ pc' = "must_end"
                 /\ UNCHANGED <<cfg, i, ordinary, warnings, lastWarn>>
    /\ UNCHANGED <<prevErr, retVars, buildVars, waits, slept, cbCalls, cbArg>>

MustCall == MustCallStep /\ UNCHANGED auxVars

MustEndStep ==
    /\ \/ pc = "must_end"
       \/ pc = "must_loop" /\ ~LoopCond(i, cfg)
    /\ IF err # NilErr
       THEN /\ pc' = "panicked"
            /\ UNCHANGED <<cbCalls, cbArg, retVars>>
       ELSE /\ IF cfg.callbackFunc # "nil"
               THEN /\ cbCalls' = cbCalls + 1
                    /\ cbArg' = [result |-> result,
                                 invocations |-> cfg.invocations,
                                 failedInvocations |-> cfg.failedInvocations]
               ELSE UNCHANGED <<cbCalls, cbArg>>
            /\ retResult' = result
            /\ UNCHANGED retErr
            /\ pc' = "returned"
    /\ UNCHANGED <<cfg, runVars, buildVars, calls, ordinary, lastOut, waits,
                   slept, warnings, lastWarn>>

MustEnd == MustEndStep /\ UNCHANGED auxVars

Next ==
    \/ Linear
    \/ MustLinear
    \/ Exponential
    \/ MustExponential
    \/ ExecSleep
    \/ ExecCall
    \/ ExecEnd
    \/ MustSleep
    \/ MustCall
    \/ MustEnd

Spec == Init /\ [][Next]_vars

(***************************************************************************)
(* A Report entry point and its Must counterpart side by side, given the   *)
(* same option list, the same rand.Intn draws and the same outcomes of the *)
(* wrapped function.  The Report run is the run above; the Must run is the *)
(* record twin, stepped by MustLinear / MustExponential and mustExec       *)
(* written as functions of that record.                                    *)
(***************************************************************************)
MustOf(e) == IF e = "Linear" THEN "MustLinear" ELSE "MustExponential"

TwinInit(e) ==
    [pc |-> "build", cfg |-> EntryConfig(MustOf(e)), i |-> 0, d |-> 0,
     result |-> "nil", err |-> NilErr, retResult |-> "nil",
     calls |-> 0, waits |-> 0, slept |-> Duration(0, 0),
     warnings |-> 0, lastWarn |-> NoWarning, cbCalls |-> 0, cbArg |-> NoCbArg]

\* MustLinear / MustExponential: one step of the option loop, or the call of mustExec
TwinBuild(t, os) ==
    IF os = <<>>
    THEN [t EXCEPT !.pc = "must_loop", !.i = 1]
    ELSE LET r == ApplyOpt(Head(os), t.cfg)
         IN  IF OptFailed(r)
             THEN [t EXCEPT !.pc = "fatal"]
             ELSE [t EXCEPT !.cfg = r.b]

\* mustExec: loop head to time.Sleep, the jitter call having returned j
TwinSleep(t, j) ==
    [t EXCEPT !.cfg.invocations = t.i,
              !.d = Delay(j, t.cfg, t.i),
              !.waits = @ + 1,
              !.slept = Duration(Delay(j, t.cfg, t.i), t.cfg.timeScale),
              !.pc = "must_call"]

\* mustExec: loop head, the jitter call panicking
TwinSleepPanic(t) ==
    [t EXCEPT !.cfg.invocations = t.i, !.pc = "panicked"]

\* mustExec: b.backoffFunc() returning out, and the error switch
TwinCall(t, out) ==
    LET c == [t EXCEPT !.calls = @ + 1, !.d = 0,
                       !.result = out.result, !.err = out.err]
    IN  IF out.err # NilErr
        THEN IF IsUnrecoverable(out.err)
             THEN [c EXCEPT !.pc = "panicked"]
             ELSE [c EXCEPT !.warnings = @ + 1,
                            !.lastWarn = Warnf(t.cfg, t.i, out.err),
                            !.cfg.failedInvocations = @ + 1,
                            !.i = @ + 1,
                            !.pc = "must_loop"]
        ELSE [c EXCEPT !.pc = "must_end"]

\* mustExec: after the loop
TwinEnd(t) ==
    IF t.err # NilErr
    THEN [t EXCEPT !.pc = "panicked"]
    ELSE IF t.cfg.callbackFunc # "nil"
         THEN [t EXCEPT !.cbCalls = @ + 1,
                        !.cbArg = [result |-> t.result,
                                   invocations |-> t.cfg.invocations,
                                   failedInvocations |-> t.cfg.failedInvocations],
                        !.retResult = t.result,
                        !.pc = "returned"]
         ELSE [t EXCEPT !.retResult = t.result, !.pc = "returned"]

PairInit ==
    /\ entry \in {"Linear", "Exponential"}
    /\ opts \in OptLists
    /\ InitRun
    /\ twin = TwinInit(entry)
    /\ jit = NoJit

PairBuild ==
    /\ pc = "build"
    /\ twin.pc = "build"
    /\ ReportBuild
    /\ twin' = TwinBuild(twin, opts)
    /\ UNCHANGED jit

PairSleep ==
    /\ ExecSleepStep
    /\ twin.pc = "must_loop"
    /\ LoopCond(twin.i, twin.cfg)
    /\ IF CallJitter(twin.cfg.jitterFunc, twin.cfg.retryAfter) = {}
       THEN twin' = TwinSleepPanic(twin)
       ELSE \E j \in CallJitter(twin.cfg.jitterFunc, twin.cfg.retryAfter) :
              /\ pc' # "panicked" => Delay(j, cfg, i) = d'
              /\ twin' = TwinSleep(twin, j)
    /\ UNCHANGED jit

PairCall ==
    /\ ExecCallStep
    /\ twin.pc = "must_call"
    /\ twin' = TwinCall(twin, lastOut')
    /\ UNCHANGED jit

PairEnd ==
    /\ ExecEndStep
    /\ \/ twin.pc = "must_end"
       \/ twin.pc = "must_loop" /\ ~LoopCond(twin.i, twin.cfg)
    /\ twin' = TwinEnd(twin)
    /\ UNCHANGED jit

PairNext ==
    \/ PairBuild
    \/ PairSleep
    \/ PairCall
    \/ PairEnd

SpecPair == PairInit /\ [][PairNext]_vars

(***************************************************************************)
(* The jitter strategies called on their own: jit holds one call of an     *)
(* exported JitterFunc, jit.f applied to jit.cap, outside any run.         *)
(***************************************************************************)
JitterFuncs == {"NoJitter", "FullJitter", "EqualJitter"}

\* every variable but jit
notJit == <<entry, opts, pc, cfg, i, d, result, err, prevErr, retResult,
            retErr, given, applied, failedOpt, calls, ordinary, lastOut,
            waits, slept, warnings, lastWarn, cbCalls, cbArg, jitterGiven,
            twin>>

JitterInit ==
    /\ entry = "Linear"
    /\ opts = <<>>
    /\ InitRun
    /\ twin = NoTwin
    /\ jit \in [f : JitterFuncs, cap : 0..MaxCap, pc : {"call"}, ret : {0}]

\* the call returns one of the values in rets, or panics when there is none
JitterReturn(rets) ==
    IF rets = {}
    THEN jit' = [jit EXCEPT !.pc = "panicked"]
    ELSE \E v \in rets : jit' = [jit EXCEPT !.pc = "returned", !.ret = v]

CallNoJitter ==
    /\ jit.pc = "call"
    /\ jit.f = "NoJitter"
    /\ JitterReturn(NoJitter(jit.cap))
    /\ UNCHANGED notJit

CallFullJitter ==
    /\ jit.pc = "call"
    /\ jit.f = "FullJitter"
    /\ JitterReturn(FullJitter(jit.cap))
    /\ UNCHANGED notJit

CallEqualJitter ==
    /\ jit.pc = "call"
    /\ jit.f = "EqualJitter"
    /\ JitterReturn(EqualJitter(jit.cap))
    /\ UNCHANGED notJit

JitterNext ==
    \/ CallNoJitter
    \/ CallFullJitter
    \/ CallEqualJitter

SpecJitter == JitterInit /\ [][JitterNext]_vars

(***************************************************************************)
(* Two runs of the same entry point side by side, given the same option    *)
(* list but for the label, the same rand.Intn draws and the same outcomes  *)
(* of the wrapped function.  The first is the run above; the second is the *)
(* record twin, where every Label option of the list is either left out    *)
(* (the default label of getLabel) or replaced by Label("other").  exec is *)
(* written as functions of that record, as mustExec is above.              *)
(***************************************************************************)
Relabels == {"default", "other"}

OtherInit(e, m) ==
    [pc |-> "build", cfg |-> EntryConfig(e), i |-> 0, d |-> 0,
     result |-> "nil", err |-> NilErr, prevErr |-> NilErr,
     retResult |-> "nil", retErr |-> NilErr,
     calls |-> 0, waits |-> 0, slept |-> Duration(0, 0),
     warnings |-> 0, lastWarn |-> NoWarning, cbCalls |-> 0, cbArg |-> NoCbArg,
     relabel |-> m]

\* Linear / Exponential: one step of the option loop, or the call of exec
TwinReportBuild(t, os) ==
    IF os = <<>>
    THEN [t EXCEPT !.pc = "exec_loop", !.i = 1]
    ELSE LET r == ApplyOpt(Head(os), t.cfg)
         IN  IF OptFailed(r)
             THEN [t EXCEPT !.pc = "returned", !.retResult = "nil",
                            !.retErr = r.err]
             ELSE [t EXCEPT !.cfg = r.b]

\* the option loop of the second run: its list has no Label, or Label("other")
OtherBuild(e, t, os) ==
    LET mine == IF os # <<>> /\ Head(os).op = "Label"
                THEN <<Opt("Label", 0, "other")>> \o Tail(os)
                ELSE os
    IN  IF os # <<>> /\ Head(os).op = "Label" /\ t.relabel = "default"
        THEN t
        ELSE IF e \in {"Linear", "Exponential"}
             THEN TwinReportBuild(t, mine)
             ELSE TwinBuild(t, mine)

\* exec: loop head to time.Sleep, the jitter call having returned j
TwinExecSleep(t, j) == [TwinSleep(t, j) EXCEPT !.pc = "exec_call"]

\* exec: b.backoffFunc() returning out, and the error switch
TwinExecCall(t, out) ==
    LET c == [t EXCEPT !.calls = @ + 1, !.d = 0, !.result = out.result]
    IN  IF out.err # NilErr
        THEN IF IsUnrecoverable(out.err)
             THEN [c EXCEPT !.err = out.err,
                            !.retResult = "int64(0)",
                            !.retErr = out.err,
                            !.pc = "returned"]
             ELSE [c EXCEPT !.warnings = @ + 1,
                            !.lastWarn = Warnf(t.cfg, t.i, out.err),
                            !.cfg.failedInvocations = @ + 1,
                            !.prevErr = out.err,
                            !.err = NilErr,
                            !.i = @ + 1,
                            !.pc = "exec_loop"]
        ELSE [c EXCEPT !.err = NilErr, !.prevErr = NilErr, !.pc = "exec_end"]

\* exec: after the loop
TwinExecEnd(t) ==
    LET r == [t EXCEPT !.retResult = ExecReturn(t.result, t.prevErr, t.err).result,
                       !.retErr = ExecReturn(t.result, t.prevErr, t.err).err,
                       !.pc = "returned"]
    IN  IF t.cfg.callbackFunc # "nil" /\ t.prevErr = NilErr
        THEN [r EXCEPT !.cbCalls = @ + 1,
                       !.cbArg = [result |-> t.result,
                                  invocations |-> t.cfg.invocations,
                                  failedInvocations |-> t.cfg.failedInvocations]]
        ELSE r

\* the jitter draws of the second run that are the first run's draw: the first
\* run computed the delay dA from it
SameDraw(t, dA) ==
    LET all == CallJitter(t.cfg.jitterFunc, t.cfg.retryAfter)
        same == {j \in all : Delay(j, cfg, i) = dA}
    IN  IF same # {} THEN same ELSE all

\* the steps the second run can take where it stands, given the first run's
\* draw (as its delay dA) and the outcome out of the wrapped function
OtherSteps(e, t, os, dA, out) ==
    CASE t.pc = "build" -> {OtherBuild(e, t, os)}
      [] t.pc \in {"exec_loop", "must_loop"} /\ LoopCond(t.i, t.cfg) ->
           IF CallJitter(t.cfg.jitterFunc, t.cfg.retryAfter) = {}
           THEN {TwinSleepPanic(t)}
           ELSE {IF t.pc = "exec_loop" THEN TwinExecSleep(t, j) ELSE TwinSleep(t, j) :
                   j \in SameDraw(t, dA)}
      [] t.pc = "exec_loop" /\ ~LoopCond(t.i, t.cfg) -> {TwinExecEnd(t)}
      [] t.pc = "must_loop" /\ ~LoopCond(t.i, t.cfg) -> {TwinEnd(t)}
      [] t.pc = "exec_call" -> {TwinExecCall(t, out)}
      [] t.pc = "must_call" -> {TwinCall(t, out)}
      [] t.pc = "exec_end" -> {TwinExecEnd(t)}
      [] t.pc = "must_end" -> {TwinEnd(t)}
      [] OTHER -> {t}

LabelInit ==
    /\ entry \in Entries
    /\ opts \in {os \in OptLists : \E k \in 1..Len(os) : os[k].op = "Label"}
    /\ InitRun
    /\ twin \in {OtherInit(entry, m) : m \in Relabels}
    /\ jit = NoJit

LabelBuild ==
    /\ pc = "build"
    /\ IF entry \in {"Linear", "Exponential"} THEN ReportBuild ELSE MustBuild
    /\ twin' \in OtherSteps(entry, twin, opts, d', lastOut')
    /\ UNCHANGED jit

LabelSleep ==
    /\ ExecSleepStep \/ MustSleepStep
    /\ twin' \in OtherSteps(entry, twin, opts, d', lastOut')
    /\ UNCHANGED jit

LabelCall ==
    /\ ExecCallStep \/ MustCallStep
    /\ twin' \in OtherSteps(entry, twin, opts, d', lastOut')
    /\ UNCHANGED jit

LabelEnd ==
    /\ ExecEndStep \/ MustEndStep
    /\ twin' \in OtherSteps(entry, twin, opts, d', lastOut')
    /\ UNCHANGED jit

LabelNext ==
    \/ LabelBuild
    \/ LabelSleep
    \/ LabelCall
    \/ LabelEnd

SpecLabel == LabelInit /\ [][LabelNext]_vars

(***************************************************************************)
(* One entry point building its configuration twice, from the same set of  *)
(* accepted options (at most one of each kind) applied in two orders.  The *)
(* first build is the run above, its list in the order of Kinds; the       *)
(* second is the record twin, its list twin.opts any order of the same     *)
(* options.  Both stop where exec / mustExec is called.                    *)
(***************************************************************************)
Kinds == <<"Retries", "RetryAfter", "Label", "TimeScale", "Logger",
           "Callback", "Jitter">>

KindRank(op) == CHOOSE k \in 1..Len(Kinds) : Kinds[k] = op

\* the options no entry point rejects
AcceptedOptions == {o \in Options : ApplyOpt(o, LinearConfig).err = NilErr}

\* option lists with at most one option of each kind, in the order of Kinds
KindLists ==
    UNION {{os \in [1..k -> AcceptedOptions] :
              \A a, b \in 1..k : a < b => KindRank(os[a].op) < KindRank(os[b].op)} :
           k \in 2..MaxOrder}

\* the same options in any order
Orders(os) == {q \in [1..Len(os) -> {os[k] : k \in 1..Len(os)}] :
                 \A k \in 1..Len(os) : \E m \in 1..Len(os) : q[m] = os[k]}

OrderTwin(e, q) ==
    [pc |-> "build", cfg |-> EntryConfig(e), opts |-> q, given |-> q,
     retResult |-> "nil", retErr |-> NilErr, i |-> 0]

\* one step of the option loop of the second build, or its call of exec / mustExec
OrderTwinBuild(e, t) ==
    LET n == IF e \in {"Linear", "Exponential"}
             THEN TwinReportBuild(t, t.opts)
             ELSE TwinBuild(t, t.opts)
    IN  IF t.opts = <<>> THEN n ELSE [n EXCEPT !.opts = Tail(t.opts)]

OrderInit ==
    /\ entry \in Entries
    /\ opts \in KindLists
    /\ InitRun
    /\ twin \in {OrderTwin(entry, q) : q \in Orders(opts)}
    /\ jit = NoJit

OrderBuild ==
    /\ pc = "build"
    /\ twin.pc = "build"
    /\ IF entry \in {"Linear", "Exponential"} THEN ReportBuild ELSE MustBuild
    /\ twin' = OrderTwinBuild(entry, twin)
    /\ UNCHANGED jit

OrderNext == OrderBuild

SpecOrder == OrderInit /\ [][OrderNext]_vars

(***************************************************************************)
(* Vocabulary of the properties.                                           *)
(***************************************************************************)
ReportEntry == entry \in {"Linear", "Exponential"}
MustEntry == entry \in {"MustLinear", "MustExponential"}
Terminal == pc \in {"returned", "panicked", "fatal"}
\* every option returned nil and the attempt loop has been entered
Built == pc # "build" /\ failedOpt = NoOpt
\* no invocation so far returned an unrecoverable error or succeeded
AllOrdinary == ordinary = calls
\* the operation is being applied the options of a build step
BuildStep(op) == pc = "build" /\ opts # <<>> /\ Head(opts).op = op

(***************************************************************************)
(* C1.  For every budget n in [1,100] and both strategies, when every      *)
(* invocation returns an ordinary error, Linear and Exponential invoke the *)
(* operation exactly n times and return the last invocation's error.       *)
(* Stated on the final states of the runs whose invocations all failed     *)
(* with ordinary errors.                                                   *)
(***************************************************************************)
C1_AlwaysFailingRunsBudget ==
    (/\ ReportEntry
     /\ Built
     /\ Terminal
     /\ cfg.maxRetries \in minRetries..maxRetries
     /\ AllOrdinary)
    => (/\ pc = "returned"
        /\ calls = cfg.maxRetries
        /\ retErr # NilErr
        /\ retErr = lastOut.err)

(***************************************************************************)
(* C2.  When the operation fails with ordinary errors k-1 times and        *)
(* succeeds on invocation k <= maxRetries, Linear and Exponential invoke   *)
(* it exactly k times, return its k-th result with a nil error, and call   *)
(* a configured callback exactly once with that result.  Stated on the     *)
(* final states of the runs in which no invocation returned an             *)
(* unrecoverable error and the budget was not used up by failures.         *)
(***************************************************************************)
C2_SuccessOnKthAttempt ==
    (/\ ReportEntry
     /\ Built
     /\ Terminal
     /\ lastOut.err.kind # "unrecoverable"
     /\ ~(AllOrdinary /\ calls >= cfg.maxRetries))
    => (/\ pc = "returned"
        /\ lastOut.err = NilErr
        /\ calls = ordinary + 1
        /\ calls <= cfg.maxRetries
        /\ retResult = lastOut.result
        /\ retErr = NilErr
        /\ cbCalls = (IF cfg.callbackFunc # "nil" THEN 1 ELSE 0)
        /\ (cbCalls = 1 => cbArg.result = lastOut.result))

(***************************************************************************)
(* C3.  Under Linear and Exponential, an invocation that returns an error  *)
(* wrapped by NewUnrecoverableError ends the run: the call returns that    *)
(* wrapper (whose embedded error is the cause the operation wrapped), and  *)
(* no wait, invocation, warning or callback follows, whatever budget is    *)
(* left.                                                                   *)
(***************************************************************************)
C3_UnrecoverableEndsReportRun ==
    /\ [](ReportEntry /\ lastOut.err.kind = "unrecoverable"
            => /\ pc = "returned"
               /\ retErr = lastOut.err
               /\ retErr.cause \in {"e1", "e2"}
               /\ cbCalls = 0)
    /\ [][ReportEntry /\ lastOut.err.kind = "unrecoverable"
            => UNCHANGED <<calls, waits, warnings, cbCalls, retErr>>]_vars

\* an unrecoverable error on the second invocation, with budget to spare
C3_Witness ==
    /\ ReportEntry
    /\ pc = "returned"
    /\ lastOut.err = NewUnrecoverableError(PlainErr("e2"))
    /\ calls = 2
    /\ cfg.maxRetries = DefaultMaxRetries

(***************************************************************************)
(* C4.  Retries(n) rejects every n outside [1,100] with                    *)
(* ErrInvalidRetriesNumber, and the run built with it returns that error   *)
(* without invoking the operation.                                         *)
(***************************************************************************)
C4_RetriesRejectsOutOfRange ==
    [][(/\ ReportEntry
        /\ BuildStep("Retries")
        /\ Head(opts).n \notin minRetries..maxRetries)
       => (/\ pc' = "returned"
           /\ retErr' = ErrInvalidRetriesNumber
           /\ calls' = 0)]_vars

(***************************************************************************)
(* C5.  When every option returned nil, the configuration satisfies        *)
(* 1 <= maxRetries <= 100 at the moment the attempt loop starts.           *)
(***************************************************************************)
C5_BudgetInRangeAtLoopStart ==
    (pc \in {"exec_loop", "must_loop"} /\ i = 1 /\ calls = 0)
    => cfg.maxRetries \in minRetries..maxRetries

(***************************************************************************)
(* C6.  RetryAfter(n) sets the base delay retryAfter to n and leaves the   *)
(* retry budget maxRetries unchanged.                                      *)
(***************************************************************************)
C6_RetryAfterSetsDelay ==
    [][BuildStep("RetryAfter")
       => (/\ cfg'.retryAfter = Head(opts).n
           /\ cfg'.maxRetries = cfg.maxRetries)]_vars

(***************************************************************************)
(* C7.  In every state of a run of exec or mustExec the counter            *)
(* invocations is at most maxRetries, and so is the number of invocations  *)
(* of the operation actually made.                                         *)
(***************************************************************************)
C7_InvocationsWithinBudget ==
    /\ cfg.invocations <= cfg.maxRetries
    /\ calls <= cfg.maxRetries

\* a run that used its whole budget of more than one attempt
C7_Witness ==
    /\ Terminal
    /\ Built
    /\ cfg.maxRetries >= 2
    /\ calls = cfg.maxRetries
    /\ cfg.invocations = cfg.maxRetries

(***************************************************************************)
(* C8.  The callback is invoked at most once, and only after an invocation *)
(* of the operation returned a nil error; never when the run ends          *)
(* exhausted or aborted, nor when no attempt succeeded.                    *)
(***************************************************************************)
C8_CallbackOnlyAfterSuccess ==
    /\ cbCalls <= 1
    /\ cbCalls = 1 => (calls >= 1 /\ lastOut.err = NilErr)

(***************************************************************************)
(* C9.  Options are applied in the order given, and when one returns an    *)
(* error under Linear or Exponential the call returns a nil result and     *)
(* that option's error at once: the options after it are not applied, the  *)
(* configuration is left as it was, there is no wait and no invocation.    *)
(***************************************************************************)
\* the error the model's options return, by constructor
ExpectedOptError(o) ==
    CASE o.op = "FailingConfig" -> PlainErr(o.s)
      [] o.op = "Retries"       -> ErrInvalidRetriesNumber
      [] OTHER                  -> NilErr

C9_OptionErrorEndsReportBuild ==
    /\ [](ReportEntry /\ failedOpt # NoOpt
            => /\ pc = "returned"
               /\ retResult = "nil"
               /\ retErr # NilErr
               /\ retErr = ExpectedOptError(failedOpt)
               /\ applied + Len(opts) = given
               /\ calls = 0
               /\ waits = 0
               /\ cbCalls = 0)
    /\ [][ReportEntry /\ failedOpt # NoOpt
            => UNCHANGED <<opts, applied, cfg, calls, waits>>]_vars
    /\ [][applied' # applied
            => (opts # <<>> /\ opts' = Tail(opts) /\ applied' = applied + 1)]_vars

\* the first of two options failed: the second is left unapplied
C9_Witness ==
    /\ ReportEntry
    /\ pc = "returned"
    /\ failedOpt.op = "FailingConfig"
    /\ applied = 1
    /\ Len(opts) = 1
    /\ opts[1].op = "Callback"
    /\ cfg.callbackFunc = "nil"

(***************************************************************************)
(* C10.  Linear and Exponential never abort: for every option list and     *)
(* every sequence of outcomes the call returns to its caller, and never    *)
(* panics or ends the process.                                             *)
(***************************************************************************)
C10_ReportNeverAborts ==
    ReportEntry => pc \notin {"panicked", "fatal"}

(***************************************************************************)
(* C11.  Every entry point, when the caller passes no Jitter option,       *)
(* builds a configuration whose jitter strategy is FullJitter, so the      *)
(* attempt loop starts with a callable jitter function.                    *)
(***************************************************************************)
C11_DefaultJitterIsFullJitter ==
    (Built /\ ~jitterGiven) => cfg.jitterFunc = "FullJitter"

(***************************************************************************)
(* C12.  For every n in [1,100], MustLinear and MustExponential with       *)
(* budget n and an operation that always returns an ordinary error invoke  *)
(* the operation exactly n times and only then panic, returning no result  *)
(* and never calling the callback.  Stated on the final states of the      *)
(* Must runs whose invocations all failed with ordinary errors.            *)
(***************************************************************************)
C12_MustAlwaysFailingRunsBudget ==
    (/\ MustEntry
     /\ Built
     /\ Terminal
     /\ cfg.maxRetries \in minRetries..maxRetries
     /\ AllOrdinary)
    => (/\ pc = "panicked"
        /\ calls = cfg.maxRetries
        /\ cbCalls = 0
        /\ retResult = "nil")

(***************************************************************************)
(* C13.  Given the same option list, jitter draws and outcomes, MustLinear *)
(* and Linear (MustExponential and Exponential) make the same waits,       *)
(* invocations, warnings and counter updates, and differ only at the end:  *)
(* where the Report run returns (result, nil) the Must run returns that    *)
(* result, and where the Report run returns an error the Must run ends     *)
(* fatally.                                                                *)
(***************************************************************************)
\* the position of the Must run that matches a position of the Report run
SamePlace ==
    CASE pc = "build"     -> twin.pc = "build"
      [] pc = "exec_loop" -> twin.pc = "must_loop"
      [] pc = "exec_call" -> twin.pc = "must_call"
      [] pc = "exec_end"  -> twin.pc = "must_end"
      [] pc = "returned"  -> IF retErr = NilErr
                             THEN twin.pc = "returned" /\ twin.retResult = retResult
                             ELSE twin.pc \in {"panicked", "fatal"}
      [] OTHER            -> twin.pc = pc

C13_MustRunsTheSameLoop ==
    /\ SamePlace
    /\ twin.waits = waits
    /\ twin.slept = slept
    /\ twin.calls = calls
    /\ twin.warnings = warnings
    /\ twin.lastWarn = lastWarn
    /\ twin.cbCalls = cbCalls
    /\ twin.cfg.invocations = cfg.invocations
    /\ twin.cfg.failedInvocations = cfg.failedInvocations

(***************************************************************************)
(* C14.  Original statement: when a run of Linear or Exponential ends      *)
(* exhausted (all maxRetries attempts returned ordinary errors), the       *)
(* result returned is nil, whatever results the operation returned with    *)
(* its errors, and the error returned is the last one recorded.            *)
(***************************************************************************)
\* a Report run that returned after maxRetries ordinary failures
ReportExhausted ==
    /\ ReportEntry
    /\ Built
    /\ pc = "returned"
    /\ calls = cfg.maxRetries
    /\ AllOrdinary

C14_ExhaustedReturnsNil ==
    ReportExhausted => (retResult = "nil" /\ retErr = lastOut.err)

(***************************************************************************)
(* C14, amended.  When a run of Linear or Exponential ends exhausted, the  *)
(* result returned is the result the last invocation returned with its     *)
(* error (nil only when the operation returned nil there), and the error   *)
(* returned is the last one recorded.                                      *)
(***************************************************************************)
C14_ExhaustedReturnsLastResult ==
    ReportExhausted
    => (/\ retResult = lastOut.result
        /\ retErr = lastOut.err)

\* exhausted after two attempts, the last returning a result with its error
C14_Witness ==
    /\ ReportExhausted
    /\ cfg.maxRetries = 2
    /\ lastOut.result = "r1"
    /\ retResult = "r1"

(***************************************************************************)
(* C15.  Waits and invocations alternate, starting with a wait: the i-th   *)
(* invocation (1-based, i = 1 included) is preceded by exactly one         *)
(* time.Sleep of jitterFunc(retryAfter) x timeScale under the constant     *)
(* strategy and jitterFunc(retryAfter) x i x timeScale under the growing   *)
(* one; with NoJitter the magnitude is retryAfter, respectively            *)
(* retryAfter x i.                                                         *)
(***************************************************************************)
\* j is a value the documented range of jitter strategy f allows for cap
InJitterRange(f, cap, j) ==
    CASE f = "NoJitter"    -> j = cap
      [] f = "FullJitter"  -> 0 <= j /\ j < cap
      [] f = "EqualJitter" -> cap \div 2 <= j /\ j < cap
      [] OTHER             -> FALSE

\* the run has slept and is about to invoke the operation
AboutToCall == pc \in {"exec_call", "must_call"}

C15_OneWaitBeforeEachInvocation ==
    /\ waits = calls + (IF AboutToCall THEN 1 ELSE 0)
    /\ AboutToCall
       => LET j == IF cfg.exponential THEN d \div i ELSE d
          IN  /\ i = calls + 1
              /\ slept = Duration(d, cfg.timeScale)
              /\ d = (IF cfg.exponential THEN j * i ELSE j)
              /\ InJitterRange(cfg.jitterFunc, cfg.retryAfter, j)
              /\ cfg.jitterFunc = "NoJitter"
                 => d = (IF cfg.exponential THEN cfg.retryAfter * i
                                            ELSE cfg.retryAfter)

\* the wait before the third invocation of a growing run without jitter
C15_Witness ==
    /\ AboutToCall
    /\ cfg.exponential
    /\ cfg.jitterFunc = "NoJitter"
    /\ i = 3
    /\ calls = 2
    /\ waits = 3
    /\ slept = Duration(3 * DefaultRetryAfter, Millisecond)

(***************************************************************************)
(* C16.  Each invocation that returns an ordinary error is followed, in    *)
(* the same iteration and before the next wait, by exactly one warning     *)
(* carrying the label and the 1-based index of that invocation; a          *)
(* successful invocation and an unrecoverable error produce none; so the   *)
(* number of warnings equals failedInvocations throughout.                 *)
(***************************************************************************)
C16_OneWarningPerOrdinaryFailure ==
    /\ [](/\ warnings = ordinary
          /\ warnings = cfg.failedInvocations)
    /\ [][calls' = calls + 1
            => IF lastOut'.err.kind = "plain"
               THEN /\ warnings' = warnings + 1
                    /\ waits' = waits
                    /\ lastWarn'.label = cfg.label
                    /\ lastWarn'.attempt = calls'
                    /\ lastWarn'.err = lastOut'.err
                    /\ lastWarn'.log = cfg.log
               ELSE UNCHANGED <<warnings, lastWarn>>]_vars
    /\ [][calls' = calls => UNCHANGED <<warnings, lastWarn>>]_vars

\* two failures warned about under a custom label, then a success
C16_Witness ==
    /\ pc = "returned"
    /\ lastOut.err = NilErr
    /\ calls = 3
    /\ warnings = 2
    /\ lastWarn.attempt = 2
    /\ lastWarn.label = "custom"

(***************************************************************************)
(* C17.  Under MustLinear and MustExponential an invocation that returns   *)
(* an unrecoverable error makes mustExec panic at once: no further wait    *)
(* or invocation whatever budget is left, no callback, no result.          *)
(***************************************************************************)
C17_UnrecoverableEndsMustRun ==
    /\ [](MustEntry /\ lastOut.err.kind = "unrecoverable"
            => /\ pc = "panicked"
               /\ cbCalls = 0
               /\ retResult = "nil"
               /\ warnings = calls - 1)
    /\ [][MustEntry /\ lastOut.err.kind = "unrecoverable"
            => UNCHANGED <<pc, calls, waits, warnings, cbCalls, retResult>>]_vars

\* an unrecoverable error on the second invocation of a Must run
C17_Witness ==
    /\ MustEntry
    /\ pc = "panicked"
    /\ lastOut.err = NewUnrecoverableError(PlainErr("e1"))
    /\ calls = 2
    /\ cfg.maxRetries = DefaultMaxRetries
    /\ cfg.callbackFunc = "cb"

(***************************************************************************)
(* C18.  Every run of exec or mustExec ends in one of the states           *)
(* Succeeded, Exhausted or Aborted, after at most maxRetries invocations,  *)
(* for every accepted configuration.                                        *)
(***************************************************************************)
\* an invocation returned a nil error and the run returned its result
Succeeded ==
    /\ pc = "returned"
    /\ calls >= 1
    /\ lastOut.err = NilErr
    /\ retResult = lastOut.result
    /\ ReportEntry => retErr = NilErr

\* all maxRetries invocations returned ordinary errors
Exhausted ==
    /\ calls = cfg.maxRetries
    /\ AllOrdinary
    /\ IF ReportEntry THEN pc = "returned" /\ retErr = lastOut.err
                      ELSE pc = "panicked" \/ (calls = 0 /\ pc = "returned")

\* an invocation returned an unrecoverable error
Aborted ==
    /\ calls >= 1
    /\ lastOut.err.kind = "unrecoverable"
    /\ IF ReportEntry THEN pc = "returned" /\ retErr = lastOut.err
                      ELSE pc = "panicked"

C18_EveryRunEndsInATerminalState ==
    /\ Built => calls <= cfg.maxRetries
    /\ (Built /\ Terminal) => (Succeeded \/ Exhausted \/ Aborted)

(***************************************************************************)
(* C19.  FullJitter(n) returns, for every n >= 0 and without failing, a    *)
(* value v with 0 <= v < n when n >= 1, and 0 when n = 0 or n = 1.         *)
(***************************************************************************)
C19_FullJitterRange ==
    (jit.f = "FullJitter" /\ jit.pc # "call")
    => /\ jit.pc = "returned"
       /\ jit.cap >= 1 => (0 <= jit.ret /\ jit.ret < jit.cap)
       /\ jit.cap <= 1 => jit.ret = 0

(***************************************************************************)
(* C20.  EqualJitter(n) returns, for every n >= 1 (n = 1 included) and     *)
(* without failing, a value v with floor(n / 2) <= v < n.                  *)
(***************************************************************************)
C20_EqualJitterRange ==
    (jit.f = "EqualJitter" /\ jit.cap >= 1 /\ jit.pc # "call")
    => /\ jit.pc = "returned"
       /\ jit.cap \div 2 <= jit.ret
       /\ jit.ret < jit.cap

(***************************************************************************)
(* C21.  The label never affects control flow: two runs of the same entry  *)
(* point given the same outcomes of the operation, the same jitter draws   *)
(* and the same options except for the label (the default label, or any    *)
(* Label(s)) make the same waits and invocations, end in the same terminal *)
(* state and return the same result and error.                             *)
(***************************************************************************)
C21_LabelDoesNotSteer ==
    /\ twin.pc = pc
    /\ twin.i = i
    /\ twin.waits = waits
    /\ twin.slept = slept
    /\ twin.calls = calls
    /\ twin.cbCalls = cbCalls
    /\ twin.retResult = retResult
    /\ twin.retErr = retErr

\* a run labelled "custom" beside the same run under the default label, both
\* returning the result of the second invocation after warning under their labels
C21_Witness ==
    /\ pc = "returned"
    /\ twin.pc = "returned"
    /\ calls = 2
    /\ retResult = "r1"
    /\ cfg.label = "custom"
    /\ twin.cfg.label = "getLabel"
    /\ lastWarn.label = "custom"
    /\ twin.lastWarn.label = "getLabel"

(***************************************************************************)
(* C22.  In every state of a run failedInvocations is the number of        *)
(* invocations so far that returned an ordinary error, and is at most      *)
(* invocations; a callback called after success on the k-th attempt sees   *)
(* invocations = k and failedInvocations = k - 1; a run that ends          *)
(* exhausted has failedInvocations = invocations = maxRetries; an          *)
(* unrecoverable error is not counted.                                     *)
(***************************************************************************)
\* the invocations that returned an ordinary error: all of them, but for the
\* last when it succeeded or was unrecoverable (either ends the loop)
OrdinaryFailures ==
    IF calls = 0 \/ lastOut.err.kind = "plain" THEN calls ELSE calls - 1

C22_CountersTrackInvocations ==
    /\ cfg.failedInvocations = OrdinaryFailures
    /\ cfg.failedInvocations = ordinary
    /\ cfg.failedInvocations <= cfg.invocations
    /\ (cbCalls > 0 /\ calls >= 1)
       => /\ lastOut.err = NilErr
          /\ cbArg.invocations = calls
          /\ cbArg.failedInvocations = calls - 1
    /\ (Built /\ Exhausted)
       => /\ cfg.failedInvocations = cfg.maxRetries
          /\ cfg.invocations = cfg.maxRetries
    /\ lastOut.err.kind = "unrecoverable"
       => cfg.failedInvocations = calls - 1

\* the callback of a run that succeeded on its third attempt
C22_Witness ==
    /\ pc = "returned"
    /\ cbCalls = 1
    /\ calls = 3
    /\ cbArg.invocations = 3
    /\ cbArg.failedInvocations = 2

(***************************************************************************)
(* C23.  Options of different kinds commute: the same set of accepted      *)
(* options (at most one each of Retries, RetryAfter, Label, TimeScale,     *)
(* Logger, Callback, Jitter) applied in any order builds the same          *)
(* configuration; in particular the run logs to the logger given to Logger *)
(* whether Label comes before or after it, and its budget is the one given *)
(* to Retries whether RetryAfter comes before or after it.                 *)
(***************************************************************************)
\* both builds have applied all their options and called exec / mustExec
BothBuilt == pc \in {"exec_loop", "must_loop"} /\ twin.pc = pc

\* the caller passed option o
Passed(o) == \E k \in 1..Len(twin.given) : twin.given[k] = o

C23_OptionsCommute ==
    BothBuilt
    => /\ twin.cfg = cfg
       /\ \A o \in AcceptedOptions :
            /\ (Passed(o) /\ o.op = "Logger")
               => (cfg.log = o.s /\ twin.cfg.log = o.s)
            /\ (Passed(o) /\ o.op = "Retries")
               => (cfg.maxRetries = o.n /\ twin.cfg.maxRetries = o.n)

====
